---- MODULE Spec2Model ----
(***************************************************************************)
(* Model of the notebook 4-forecasting_nfp_lr/NFP.ipynb: a batch pipeline  *)
(* load -> diff -> data_preprocessing (window + split) -> fit -> predict   *)
(* -> RMSE -> directional ratio, one action per code cell.                 *)
(***************************************************************************)
EXTENDS Integers, Sequences, FiniteSets, TLC

\* ------------------------------------------------------------------ bounds
MaxLevel == 1          \* payroll levels of the short series are 0..MaxLevel
MaxLen == 4            \* longest short raw series
MaxLag == 2            \* num_lags ranges over 0..MaxLag
LongPairs == 50        \* long series yield up to this many windowed pairs

\* ------------------------------------------------- representation constants
Base == 4096           \* limb radix of the big naturals, 2^LimbBits
LimbBits == 12
MantBits == 53         \* significand width of a Python float (IEEE double)
ParseLimbs == 5        \* literal parsing works on n * 2^(LimbBits*ParseLimbs)
Hundred == 100         \* split fractions are literals with two decimals
RmseScale == 100       \* rmse_test is held in hundredths, rounded down
RatioScale == 100      \* same_sign_count is held in hundredths of a percent

Max(a, b) == IF a >= b THEN a ELSE b
Min(a, b) == IF a <= b THEN a ELSE b
Abs(a) == IF a < 0 THEN 0 - a ELSE a

\* ----------------------------------------------------------- Python floats
RECURSIVE Pow2(_)
Pow2(n) == IF n = 0 THEN 1 ELSE 2 * Pow2(n - 1)

RECURSIVE SmallBitLen(_)
SmallBitLen(n) == IF n = 0 THEN 0 ELSE 1 + SmallBitLen(n \div 2)

\* big naturals: little-endian limb sequences without leading zero limbs
RECURSIVE BigNorm(_)
BigNorm(a) == IF a = <<>> THEN <<>>
              ELSE IF a[Len(a)] = 0 THEN BigNorm(SubSeq(a, 1, Len(a) - 1)) ELSE a

RECURSIVE BigMulFrom(_, _, _, _)
BigMulFrom(a, k, i, carry) ==
    IF i > Len(a)
    THEN IF carry = 0 THEN <<>> ELSE <<carry % Base>> \o BigMulFrom(a, k, i, carry \div Base)
    ELSE <<(a[i] * k + carry) % Base>> \o BigMulFrom(a, k, i + 1, (a[i] * k + carry) \div Base)

BigMulSmall(a, k) == BigNorm(BigMulFrom(a, k, 1, 0))

RECURSIVE BigRemFrom(_, _, _)
BigRemFrom(a, k, i) == IF i > Len(a) THEN 0 ELSE (BigRemFrom(a, k, i + 1) * Base + a[i]) % k

BigDivSmall(a, k) ==
    [q |-> BigNorm([i \in 1..Len(a) |-> (BigRemFrom(a, k, i + 1) * Base + a[i]) \div k]),
     r |-> BigRemFrom(a, k, 1)]

BigBitLen(a) == IF a = <<>> THEN 0 ELSE LimbBits * (Len(a) - 1) + SmallBitLen(a[Len(a)])

RECURSIVE BigToSmall(_)
BigToSmall(a) == IF a = <<>> THEN 0 ELSE a[1] + Base * BigToSmall(Tail(a))

BigIsOdd(a) == a # <<>> /\ a[1] % 2 = 1

BigPow2Limbs(k) == [i \in 1..(k + 1) |-> IF i = k + 1 THEN 1 ELSE 0]

RECURSIVE BigInc(_)
BigInc(a) == IF a = <<>> THEN <<1>>
             ELSE IF a[1] + 1 < Base THEN <<a[1] + 1>> \o Tail(a)
             ELSE <<0>> \o BigInc(Tail(a))

RECURSIVE BigFloorShift(_, _)
BigFloorShift(a, s) ==
    IF s = 0 \/ a = <<>> THEN a
    ELSE IF s >= LimbBits THEN BigFloorShift(SubSeq(a, 2, Len(a)), s - LimbBits)
    ELSE BigDivSmall(a, Pow2(s)).q

\* A non-negative double is mant * 2^exp.  RoundToDouble rounds the real
\* (q + frac) * 2^e, frac in [0,1) and frac > 0 iff sticky, to MantBits
\* significant bits, ties to even.
RoundToDouble(q, sticky, e) ==
    IF BigBitLen(q) <= MantBits THEN [mant |-> q, exp |-> e]
    ELSE LET s == BigBitLen(q) - MantBits
             d == BigDivSmall(q, Pow2(s))
             half == Pow2(s - 1)
             up == \/ d.r > half
                   \/ d.r = half /\ sticky
                   \/ d.r = half /\ ~sticky /\ BigIsOdd(d.q)
         IN [mant |-> IF up THEN BigInc(d.q) ELSE d.q, exp |-> e + s]

\* the double denoted by the decimal literal n/den, n >= 0
ParseDecimal(n, den) ==
    LET d == BigDivSmall(BigMulSmall(BigPow2Limbs(ParseLimbs), n), den)
    IN RoundToDouble(d.q, d.r # 0, 0 - LimbBits * ParseLimbs)

\* float * int: the int converts exactly and the product is rounded once
FloatMulInt(f, m) == RoundToDouble(BigMulSmall(f.mant, m), FALSE, f.exp)

\* int(float) of a non-negative double: truncation
FloatTrunc(f) == IF f.exp >= 0 THEN BigToSmall(BigMulSmall(f.mant, Pow2(f.exp)))
                 ELSE BigToSmall(BigFloorShift(f.mant, 0 - f.exp))

\* int(train_test_split * len(x)); lit is the literal in hundredths.
\* int() truncates towards zero and rounding is symmetric in the sign.
SplitIndex(lit, m) ==
    LET mag == FloatTrunc(FloatMulInt(ParseDecimal(Abs(lit), Hundred), m))
    IN IF lit < 0 THEN 0 - mag ELSE mag

\* ------------------------------------------------------ sequence operations
\* Python's normalisation of a slice bound k for a sequence of length n
PyBound(k, n) == IF k < 0 THEN Max(n + k, 0) ELSE Min(k, n)

\* s[a:b], s[:k] and s[k:] with Python's semantics (0-based, bounds clipped)
PySlice(s, a, b) == SubSeq(s, PyBound(a, Len(s)) + 1, PyBound(b, Len(s)))
PySliceTo(s, k) == SubSeq(s, 1, PyBound(k, Len(s)))
\* slip: the test block starts one pair late
PySliceFrom_Gap(s, k) == SubSeq(s, Min(PyBound(k, Len(s)) + 2, Len(s) + 1), Len(s))
PySliceFrom(s, k) == SubSeq(s, PyBound(k, Len(s)) + 1, Len(s))

\* slip: operands of the subtraction swapped
NpDiff_Swapped(a) == [i \in 1..Max(Len(a) - 1, 0) |-> a[i] - a[i + 1]]

\* np.diff(a) for a one-dimensional array: a[1:] - a[:-1]
NpDiff(a) == [i \in 1..Max(Len(a) - 1, 0) |-> a[i + 1] - a[i]]

\* slip: every window starts one position late
WindowX_Late(d, lags) == [k \in 1..Max(Len(d) - lags, 0) |-> PySlice(d, k, k + lags)]

\* the loop of data_preprocessing: iteration i (0-based) appends
\* data[i:i + num_lags] to x and data[i + num_lags] to y
WindowX(d, lags) == [k \in 1..Max(Len(d) - lags, 0) |-> PySlice(d, k - 1, k - 1 + lags)]
WindowY(d, lags) == [k \in 1..Max(Len(d) - lags, 0) |-> d[k + lags]]

DataPreprocessing(d, lags, lit) ==
    LET wx == WindowX(d, lags)
        wy == WindowY(d, lags)
        si == SplitIndex(lit, Len(wx))
    IN [x |-> wx, y |-> wy, split_index |-> si,
        x_train |-> PySliceTo(wx, si), y_train |-> PySliceTo(wy, si),
        x_test |-> PySliceFrom(wx, si), y_test |-> PySliceFrom(wy, si)]

\* slip: zero counted as positive
NpSign_TwoClass(v) == IF v < 0 THEN 0 - 1 ELSE 1

\* np.sign: three classes
NpSign(v) == IF v < 0 THEN 0 - 1 ELSE IF v > 0 THEN 1 ELSE 0

RECURSIVE SumTo(_, _)
SumTo(f, n) == IF n = 0 THEN 0 ELSE f[n] + SumTo(f, n - 1)

\* largest r with r * r <= v, by bisection on [lo, hi)
RECURSIVE IsqrtIn(_, _, _)
IsqrtIn(v, lo, hi) ==
    IF hi - lo <= 1 THEN lo
    ELSE LET mid == (lo + hi) \div 2
         IN IF mid * mid <= v THEN IsqrtIn(v, mid, hi) ELSE IsqrtIn(v, lo, mid)

Isqrt(v) == IsqrtIn(v, 0, Min(v, 46340) + 1)

\* LinearRegression.predict: coef . features + intercept for every row
Dot(w, row) == SumTo([j \in 1..Len(w) |-> w[j] * row[j]], Len(w))
Predict(m, rows) == [k \in 1..Len(rows) |-> Dot(m.coef, rows[k]) + m.intercept]

\* slip: the fit sees every windowed pair
FitInputs_All(xtr, ytr, xall, yall) == [x |-> xall, y |-> yall]

\* what model.fit is called with
FitInputs(xtr, ytr, xall, yall) == [x |-> xtr, y |-> ytr]

\* slip: the error is not squared
SquaredError_Signed(p, t) == p - t

\* mean_squared_error(y_pred, y_test) as the pair (sum of squares, count)
SquaredError(p, t) == (p - t) * (p - t)
SumSquaredError(pred, test) == SumTo([k \in 1..Len(test) |-> SquaredError(pred[k], test[k])], Len(test))

\* math.sqrt(sse / n) in units of 1/RmseScale, rounded down
Rmse(pred, test) == Isqrt((SumSquaredError(pred, test) * RmseScale * RmseScale) \div Len(test))

\* np.sum(np.sign(y_pred) == np.sign(y_test))
SameSign(pred, test) ==
    SumTo([k \in 1..Len(test) |-> IF NpSign(pred[k]) = NpSign(test[k]) THEN 1 ELSE 0], Len(test))

\* ... / len(y_test) * 100, in units of 1/RatioScale percent, rounded down
DirectionalRatio(pred, test) == (SameSign(pred, test) * 100 * RatioScale) \div Len(test)

\* -------------------------------------------------------------------- inputs
NotebookLags == 5                    \* data_preprocessing(data, 5, 0.80)
NotebookSplit == 80
LagSet == 0..MaxLag
SplitSet == {0 - 50, 58, 67, NotebookSplit, 100}
CoefSet == {0 - 1, 0, 1}
InterceptSet == {0, 1}

ShortSeries == UNION {[1..n -> 0..MaxLevel] : n \in 0..MaxLen}
ScenarioSeries == <<100, 102, 101, 105, 108, 107>>
\* two sawtooth series for every length that yields LongPairs pairs for some lag
LongSeries == {[i \in 1..n |-> (i * k) % 3] :
                 n \in (LongPairs + 1)..(LongPairs + MaxLag + 1), k \in {1, 2}}
SheetSeries == ShortSeries \cup {ScenarioSeries} \cup LongSeries

Unfitted == [coef |-> <<>>, intercept |-> 0, fitted |-> FALSE]
NoInputs == [x |-> <<>>, y |-> <<>>]
\* the affine models the solver may return: a finite sample, equal weights
Models(lags) == {[coef |-> [j \in 1..lags |-> c], intercept |-> b, fitted |-> TRUE] :
                   c \in CoefSet, b \in InterceptSet}

\* --------------------------------------------------------------------- state
VARIABLES pc,               \* the cell to run next, "done" or "failed"
          failed_at,        \* the cell that raised, "none" if none did
          levels,           \* the flattened sheet as loaded (history of data)
          data,             \* the notebook's variable data
          num_lags,         \* second argument of the data_preprocessing call
          train_test_split, \* third argument, the literal in hundredths
          x, y, split_index,               \* locals of data_preprocessing
          x_train, y_train, x_test, y_test,
          model, fit_inputs, y_pred, rmse_test, same_sign_count

vars == <<pc, failed_at, levels, data, num_lags, train_test_split, x, y, split_index,
          x_train, y_train, x_test, y_test, model, fit_inputs, y_pred, rmse_test,
          same_sign_count>>

split_vars == <<x, y, split_index, x_train, y_train, x_test, y_test>>
eval_vars == <<model, fit_inputs, y_pred, rmse_test, same_sign_count>>

\* the plot cell between predict and rmse assigns no variable and is left out
Cells == <<"load", "diff", "window", "create", "fit", "predict", "rmse", "ratio", "done">>
CellNo(c) == CHOOSE k \in 1..Len(Cells) : Cells[k] = c

\* the cell c has run to completion
Ran(c) == IF pc = "failed" THEN CellNo(failed_at) > CellNo(c) ELSE CellNo(pc) > CellNo(c)

Init ==
    /\ pc = "load" /\ failed_at = "none"
    /\ levels = <<>> /\ data = <<>>
    /\ \/ num_lags \in LagSet /\ train_test_split \in SplitSet
       \/ num_lags = NotebookLags /\ train_test_split = NotebookSplit
    /\ x = <<>> /\ y = <<>> /\ split_index = 0
    /\ x_train = <<>> /\ y_train = <<>> /\ x_test = <<>> /\ y_test = <<>>
    /\ model = Unfitted /\ fit_inputs = NoInputs
    /\ y_pred = <<>> /\ rmse_test = 0 /\ same_sign_count = 0

Raise(cell) == pc' = "failed" /\ failed_at' = cell

\* pd.read_excel('NFP.xlsx').values and np.reshape(data, (-1))
LoadOk ==
    /\ pc = "load"
    /\ \E s \in SheetSeries : levels' = s /\ data' = s
    /\ pc' = "diff"
    /\ UNCHANGED <<failed_at, num_lags, train_test_split, split_vars, eval_vars>>

LoadMissing ==
    /\ pc = "load"
    /\ Raise("load")
    /\ UNCHANGED <<levels, data, num_lags, train_test_split, split_vars, eval_vars>>

\* data = np.diff(data)
Diff ==
    /\ pc = "diff"
    /\ data' = NpDiff(data)
    /\ pc' = "window"
    /\ UNCHANGED <<failed_at, levels, num_lags, train_test_split, split_vars, eval_vars>>

\* x_train, y_train, x_test, y_test = data_preprocessing(data, 5, 0.80)
Window ==
    /\ pc = "window"
    /\ LET r == DataPreprocessing(data, num_lags, train_test_split)
       IN /\ x' = r.x /\ y' = r.y /\ split_index' = r.split_index
          /\ x_train' = r.x_train /\ y_train' = r.y_train
          /\ x_test' = r.x_test /\ y_test' = r.y_test
    /\ pc' = "create"
    /\ UNCHANGED <<failed_at, levels, data, num_lags, train_test_split, eval_vars>>

\* model = LinearRegression()
CreateModel ==
    /\ pc = "create"
    /\ model' = Unfitted
    /\ pc' = "fit"
    /\ UNCHANGED <<failed_at, levels, data, num_lags, train_test_split, split_vars,
                   fit_inputs, y_pred, rmse_test, same_sign_count>>

\* model.fit(x_train, y_train): the solver's result is any affine model
FitOk ==
    /\ pc = "fit"
    /\ Len(x_train) > 0 /\ num_lags > 0
    /\ fit_inputs' = FitInputs(x_train, y_train, x, y)
    /\ model' \in Models(num_lags)
    /\ pc' = "predict"
    /\ UNCHANGED <<failed_at, levels, data, num_lags, train_test_split, split_vars,
                   y_pred, rmse_test, same_sign_count>>

\* the library rejects an array with no samples or no features
FitRaises ==
    /\ pc = "fit"
    /\ Len(x_train) = 0 \/ num_lags = 0
    /\ Raise("fit")
    /\ UNCHANGED <<levels, data, num_lags, train_test_split, split_vars, eval_vars>>

\* y_pred = model.predict(x_test)
PredictOk ==
    /\ pc = "predict"
    /\ Len(x_test) > 0
    /\ y_pred' = Predict(model, x_test)
    /\ pc' = "rmse"
    /\ UNCHANGED <<failed_at, levels, data, num_lags, train_test_split, split_vars,
                   model, fit_inputs, rmse_test, same_sign_count>>

PredictRaises ==
    /\ pc = "predict"
    /\ Len(x_test) = 0
    /\ Raise("predict")
    /\ UNCHANGED <<levels, data, num_lags, train_test_split, split_vars, eval_vars>>

\* rmse_test = math.sqrt(mean_squared_error(y_pred, y_test))
RmseCell ==
    /\ pc = "rmse"
    /\ rmse_test' = Rmse(y_pred, y_test)
    /\ pc' = "ratio"
    /\ UNCHANGED <<failed_at, levels, data, num_lags, train_test_split, split_vars,
                   model, fit_inputs, y_pred, same_sign_count>>

\* same_sign_count = np.sum(np.sign(y_pred) == np.sign(y_test)) / len(y_test) * 100
RatioCell ==
    /\ pc = "ratio"
    /\ same_sign_count' = DirectionalRatio(y_pred, y_test)
    /\ pc' = "done"
    /\ UNCHANGED <<failed_at, levels, data, num_lags, train_test_split, split_vars,
                   model, fit_inputs, y_pred, rmse_test>>

Next == \/ LoadOk \/ LoadMissing \/ Diff \/ Window \/ CreateModel \/ FitOk \/ FitRaises
        \/ PredictOk \/ PredictRaises \/ RmseCell \/ RatioCell

Spec == Init /\ [][Next]_vars

\* ------------------------------------------------------------------- claims
\* the call's arguments are in the domain the claims speak of: L >= 1, 0 < f < 1
ValidArgs == num_lags >= 1 /\ train_test_split > 0 /\ train_test_split < Hundred

\* the cell c has been entered: it ran to completion or it raised
\* data_preprocessing has just returned; no later cell assigns its results
Returned == pc = "create"

Attempted(c) == IF pc = "failed" THEN CellNo(failed_at) >= CellNo(c) ELSE CellNo(pc) > CellNo(c)

ScenarioDiff == <<2, 0 - 1, 4, 3, 0 - 1>>
ScenarioPred == <<1, 0 - 2, 3>>
ScenarioTest == <<1, 0 - 2, 0 - 3>>

\* data_preprocessing run on the positions 1..Len(data) instead of the values:
\* every entry of the result is the DiffSeries position the block reads there
Positions == DataPreprocessing([i \in 1..Len(data) |-> i], num_lags, train_test_split)
ValuesAt(block) == [k \in 1..Len(block) |-> [j \in 1..Len(block[k]) |-> data[block[k][j]]]]
LabelsAt(block) == [k \in 1..Len(block) |-> data[block[k]]]

\* C1: for 1 <= L < D the windowing builds exactly D-L pairs, pair i has the
\* features DiffSeries[i .. i+L-1] in order and the label DiffSeries[i+L]
C1_WindowPairs ==
    (Ran("window") /\ num_lags >= 1 /\ num_lags < Len(data)) =>
        /\ Len(x) = Len(data) - num_lags
        /\ Len(y) = Len(data) - num_lags
        /\ \A i \in 0..(Len(data) - num_lags - 1) :
              /\ Len(x[i + 1]) = num_lags
              /\ \A j \in 1..num_lags : x[i + 1][j] = data[i + j]
              /\ y[i + 1] = data[i + num_lags + 1]
        /\ (data = ScenarioDiff /\ num_lags = 2) =>
              (x = <<(<<2, 0 - 1>>), (<<0 - 1, 4>>), (<<4, 3>>)>> /\ y = <<4, 3, 0 - 1>>)

C1_Witness == Ran("window") /\ data = ScenarioDiff /\ num_lags = 2 /\ Len(x) = 3

\* C2: the training block followed by the test block is the full list of
\* windowed pairs in the original order, features and labels aligned, and
\* every training pair index is below every test pair index
C2_Partition ==
    Returned =>
        LET pos == Positions
        IN /\ x_train \o x_test = x
           /\ y_train \o y_test = y
           /\ Len(x_train) = Len(y_train)
           /\ Len(x_test) = Len(y_test)
           /\ Len(x) = Len(y)
           /\ pos.y_train \o pos.y_test = [k \in 1..Len(y) |-> k + num_lags]
           /\ y_train = LabelsAt(pos.y_train)
           /\ y_test = LabelsAt(pos.y_test)
           /\ \A k \in 1..Len(y_train) : \A j \in 1..Len(y_test) :
                 pos.y_train[k] < pos.y_test[j]

C2_Witness == Returned /\ Len(x_train) = 2 /\ Len(x_test) = 1 /\ train_test_split = 67

\* C3: for f in (0,1) the cut is floor(f * M) computed exactly, the training
\* block has floor(f * M) pairs and the test block the other M - floor(f * M)
C3_ExactFloor ==
    (Ran("window") /\ ValidArgs) =>
        /\ split_index = (train_test_split * Len(x)) \div Hundred
        /\ Len(x_train) = (train_test_split * Len(x)) \div Hundred
        /\ Len(x_test) = Len(x) - (train_test_split * Len(x)) \div Hundred

\* C4: differencing yields N-1 values, element i being level[i+1] - level[i],
\* and this once-differenced series is what data_preprocessing windows
C4_Differencing ==
    /\ Ran("diff") =>
          /\ Len(levels) >= 1 => Len(data) = Len(levels) - 1
          /\ Len(levels) = 0 => data = <<>>
          /\ \A i \in 1..Len(data) : data[i] = levels[i + 1] - levels[i]
          /\ levels = ScenarioSeries => data = ScenarioDiff
    /\ Ran("window") =>
          /\ Len(y) = Max(Len(levels) - 1 - num_lags, 0)
          /\ \A k \in 1..Len(y) :
                /\ y[k] = levels[k + num_lags + 1] - levels[k + num_lags]
                /\ \A j \in 1..num_lags : x[k][j] = levels[k + j] - levels[k + j - 1]

C4_Witness == Ran("window") /\ levels = ScenarioSeries /\ data = ScenarioDiff /\ Len(y) > 0

\* C5: the model is fitted on the training block only, and every DiffSeries
\* position a training pair reads is earlier than the position of every test label
C5_NoLeak ==
    /\ Ran("fit") => fit_inputs = [x |-> x_train, y |-> y_train]
    /\ (Returned /\ num_lags >= 1) =>
          LET pos == Positions
          IN /\ x_train = ValuesAt(pos.x_train)
             /\ y_train = LabelsAt(pos.y_train)
             /\ y_test = LabelsAt(pos.y_test)
             /\ \A k \in 1..Len(y_train) : \A j \in 1..Len(y_test) :
                   /\ pos.y_train[k] < pos.y_test[j]
                   /\ \A i \in 1..num_lags : pos.x_train[k][i] < pos.y_test[j]

C5_Witness == Ran("fit") /\ Len(x_train) >= 2 /\ Len(x_test) >= 2 /\ num_lags >= 2 /\ model.fitted

\* C6: when the lag count is at least the length of the difference series the
\* windowing/splitting step fails instead of returning blocks
C6_LagTooLargeFails ==
    (Attempted("window") /\ ValidArgs /\ num_lags >= Len(data)) =>
        (pc = "failed" /\ failed_at = "window")

\* C7: when the cut is 0 or M the windowing/splitting step fails, and an empty
\* test block never reaches evaluation
C7_DegenerateSplitFails ==
    /\ (Attempted("window") /\ ValidArgs /\ num_lags < Len(data)
          /\ (split_index = 0 \/ split_index = Len(x))) =>
              (pc = "failed" /\ failed_at = "window")
    /\ Ran("predict") => Len(y_test) > 0

\* C8: DirectionalRatio = 100 * (number of i with the same three-class sign of
\* prediction and label) / M_test, and it lies in [0, 100]
C8_DirectionalRatio ==
    /\ Ran("ratio") =>
          LET n == Len(y_test)
              matches == Cardinality({i \in 1..n : \/ y_pred[i] < 0 /\ y_test[i] < 0
                                                   \/ y_pred[i] = 0 /\ y_test[i] = 0
                                                   \/ y_pred[i] > 0 /\ y_test[i] > 0})
          IN /\ n > 0 /\ Len(y_pred) = n
             /\ same_sign_count = (100 * RatioScale * matches) \div n
             /\ same_sign_count >= 0 /\ same_sign_count <= 100 * RatioScale
             /\ SameSign(ScenarioPred, ScenarioTest) = 2
             /\ DirectionalRatio(ScenarioPred, ScenarioTest) = 6666

C8_Witness ==
    /\ Ran("ratio") /\ same_sign_count > 0 /\ same_sign_count < 100 * RatioScale
    /\ \E i \in 1..Len(y_test) : y_pred[i] = 0 /\ y_test[i] # 0

\* C9: RMSE = sqrt(sum of squared errors / M_test) is >= 0 and is 0 exactly
\* when predictions and labels are equal element-wise
C9_Rmse ==
    /\ Ran("rmse") =>
          LET n == Len(y_test)
              sse == SumSquaredError(y_pred, y_test)
          IN /\ n > 0 /\ Len(y_pred) = n
             /\ rmse_test >= 0
             /\ rmse_test = 0 <=> y_pred = y_test
             /\ rmse_test * rmse_test * n <= sse * RmseScale * RmseScale
             /\ sse * RmseScale * RmseScale < (rmse_test + 1) * (rmse_test + 1) * n
             /\ sse >= Cardinality({i \in 1..n : y_pred[i] # y_test[i]})
             /\ Rmse(ScenarioPred, ScenarioTest) = 346

C9_Witness == Ran("rmse") /\ rmse_test = 0 /\ Len(y_test) >= 2 /\ \E i \in 1..Len(y_test) : y_test[i] # 0

\* C10: every run completes all stages or aborts at the first stage that
\* receives invalid input (fewer than 2 raw values, L >= length of the
\* difference series, degenerate split); after a failure no later stage runs
C10_FailFast ==
    /\ (Attempted("diff") /\ ValidArgs /\ Len(levels) < 2) =>
          (pc = "failed" /\ failed_at = "diff")
    /\ (Attempted("window") /\ ValidArgs /\ Len(levels) >= 2
          /\ (num_lags >= Len(data) \/ split_index = 0 \/ split_index = Len(x))) =>
              (pc = "failed" /\ failed_at = "window")
    /\ pc = "failed" => (rmse_test = 0 /\ same_sign_count = 0 /\ y_pred = <<>>)
====
